---- MODULE Spec2Model ----
(***************************************************************************)
(* PlannerDomValue / PlannerDomRoot (src/ee/common/PlannerDomValue.h): a   *)
(* shim over a parsed jsoncpp document.  PlannerDomRoot owns the           *)
(* Json::Value m_document; a PlannerDomValue holds a NON-const reference   *)
(* Json::Value &m_value to one node of it, so m_value[key] and             *)
(* m_value[index] in its const methods are the library's non-const         *)
(* subscripts.                                                             *)
(*                                                                         *)
(* The document is a function from paths to nodes.  A path is a sequence   *)
(* of map keys; as in jsoncpp, members of an object and elements of an     *)
(* array are both entries of one map keyed by a CZString (a name or an     *)
(* index).  An integer v is held as hi * 2^16 + lo with 0 <= lo < 2^16,    *)
(* which keeps the 32-bit boundary exact; a floating point value is        *)
(* hi * 2^16 + lo + half / 2.                                              *)
(***************************************************************************)
EXTENDS Integers, Sequences, FiniteSets, TLC

VARIABLES doc, doc0, view, solo, last, alone, nops

vars == <<doc, doc0, view, solo, last, alone, nops>>

\* Largest array index a caller passes to valueAtIndex.
MaxIndex == 3
\* Operations each thread performs in the two-thread specification.
MaxOps == 3

Keys == {"a", "b"}
Indexes == (0 - 1) .. MaxIndex
Threads == {1, 2}

Limb == 2 ^ 16
HalfLimb == 2 ^ 15

-----------------------------------------------------------------------------
(* Json::Value: nodes, map keys, paths                                     *)

NameKey(k) == [cstr |-> k, index |-> 0 - 1]
IndexKey(i) == [cstr |-> "", index |-> i]

Node(t, hi, lo, half, s, b) ==
    [type |-> t, hi |-> hi, lo |-> lo, half |-> half, s |-> s, b |-> b]

NullNode == Node("nullValue", 0, 0, 0, "", FALSE)
IntNode(hi, lo) == Node("intValue", hi, lo, 0, "", FALSE)
RealNode(hi, lo, half) == Node("realValue", hi, lo, half, "", FALSE)
StringNode(s) == Node("stringValue", 0, 0, 0, s, FALSE)
BoolNode(b) == Node("booleanValue", 0, 0, 0, "", b)
ArrayNode == Node("arrayValue", 0, 0, 0, "", FALSE)
ObjectNode == Node("objectValue", 0, 0, 0, "", FALSE)

\* The map keys of the node at path p: the last step of every path one longer.
Entries(d, p) ==
    {q[Len(q)] : q \in {r \in DOMAIN d : Len(r) = Len(p) + 1
                                          /\ SubSeq(r, 1, Len(p)) = p}}

Members(d, p) == {e.cstr : e \in {x \in Entries(d, p) : x.index < 0}}

Positions(d, p) == {e.index : e \in {x \in Entries(d, p) : x.index >= 0}}

isNull(n) == n.type = "nullValue"
isBool(n) == n.type = "booleanValue"
isString(n) == n.type = "stringValue"
isArray(n) == n.type = "arrayValue"
isDouble(n) == n.type = "realValue"
isInt64(n) == n.type = "intValue"
isInt(n) == n.type = "intValue" /\ n.hi >= 0 - HalfLimb /\ n.hi <= HalfLimb - 1

\* Json::Value::asInt: the stored integer as a 32-bit int.
ToInt32(hi) == ((hi + HalfLimb) % Limb) - HalfLimb

\* Json::Value::size of an array: the last index plus one.
size(d, p) ==
    IF Positions(d, p) = {} THEN 0
    ELSE 1 + CHOOSE i \in Positions(d, p) : \A j \in Positions(d, p) : j <= i

\* Json::Value::isMember(key), through the const subscript: null has no
\* members, an object is looked up, any other type fails the library's
\* assertion (an abort, or undefined behaviour with assertions compiled out).
isMember(d, p, key) ==
    IF isNull(d[p]) THEN [ok |-> TRUE, b |-> FALSE]
    ELSE IF d[p].type = "objectValue" THEN [ok |-> TRUE, b |-> key \in Members(d, p)]
    ELSE [ok |-> FALSE, b |-> FALSE]

\* The non-const subscripts Value::operator[](const char *) and
\* Value::operator[](int): a null value first becomes an empty object (array),
\* a missing entry is created as null, and a reference to the entry is
\* returned.  Any other type, or a negative index, fails the assertion.
Subscript(d, p, e, want) ==
    IF ~(isNull(d[p]) \/ d[p].type = want) \/ (e.cstr = "" /\ e.index < 0)
    THEN [ok |-> FALSE, doc |-> d, ref |-> p]
    ELSE LET made == [d EXCEPT ![p] = IF isNull(d[p])
                                       THEN Node(want, 0, 0, 0, "", FALSE)
                                       ELSE d[p]]
             q == Append(p, e)
         IN  [ok |-> TRUE,
              doc |-> IF q \in DOMAIN made THEN made ELSE made @@ (q :> NullNode),
              ref |-> q]

-----------------------------------------------------------------------------
(* Outcomes of a PlannerDomValue method                                    *)

Outcome(d, kind, hi, lo, half, s, b, ref) ==
    [doc |-> d, kind |-> kind, hi |-> hi, lo |-> lo, half |-> half,
     s |-> s, b |-> b, ref |-> ref]

\* throw SerializableEEException(...): the tree is as the method left it.
Throw(d, kind) == Outcome(d, kind, 0, 0, 0, "", FALSE, <<>>)
\* A failed assertion inside the library.
LibraryFailure(d) == Throw(d, "LibraryAssert")
RetNum(d, hi, lo, half) == Outcome(d, "ok", hi, lo, half, "", FALSE, <<>>)
RetBool(d, b) == Outcome(d, "ok", 0, 0, 0, "", b, <<>>)
RetStr(d, s) == Outcome(d, "ok", 0, 0, 0, s, FALSE, <<>>)
RetView(d, q) == Outcome(d, "ok", 0, 0, 0, "", FALSE, <<q>>)

-----------------------------------------------------------------------------
(* PlannerDomValue                                                         *)

asInt(d, p) ==
    IF isNull(d[p]) \/ ~isInt(d[p]) THEN Throw(d, "TypeMismatch")
    ELSE RetNum(d, ToInt32(d[p].hi), d[p].lo, 0)

\* Variant: asInt64 with every integer read through the 32-bit asInt.
asInt64_Truncating(d, p) ==
    IF isNull(d[p]) THEN Throw(d, "TypeMismatch")
    ELSE IF isInt64(d[p]) \/ isInt(d[p]) THEN RetNum(d, ToInt32(d[p].hi), d[p].lo, 0)
    ELSE Throw(d, "TypeMismatch")

asInt64(d, p) ==
    IF isNull(d[p]) THEN Throw(d, "TypeMismatch")
    ELSE IF isInt64(d[p]) THEN RetNum(d, d[p].hi, d[p].lo, 0)
    ELSE IF isInt(d[p]) THEN RetNum(d, ToInt32(d[p].hi), d[p].lo, 0)
    ELSE Throw(d, "TypeMismatch")

\* Variant: asDouble without the isInt64 branch.
asDouble_NoInt64(d, p) ==
    IF isNull(d[p]) THEN Throw(d, "TypeMismatch")
    ELSE IF isDouble(d[p]) THEN RetNum(d, d[p].hi, d[p].lo, d[p].half)
    ELSE IF isInt(d[p]) THEN RetNum(d, ToInt32(d[p].hi), d[p].lo, 0)
    ELSE Throw(d, "TypeMismatch")

asDouble(d, p) ==
    IF isNull(d[p]) THEN Throw(d, "TypeMismatch")
    ELSE IF isDouble(d[p]) THEN RetNum(d, d[p].hi, d[p].lo, d[p].half)
    ELSE IF isInt(d[p]) THEN RetNum(d, ToInt32(d[p].hi), d[p].lo, 0)
    ELSE IF isInt64(d[p]) THEN RetNum(d, d[p].hi, d[p].lo, 0)
    ELSE Throw(d, "TypeMismatch")

\* Variant: asBool answering false for a null instead of throwing.
asBool_NullIsFalse(d, p) ==
    IF isNull(d[p]) THEN RetBool(d, FALSE)
    ELSE IF ~isBool(d[p]) THEN Throw(d, "TypeMismatch")
    ELSE RetBool(d, d[p].b)

asBool(d, p) ==
    IF isNull(d[p]) \/ ~isBool(d[p]) THEN Throw(d, "TypeMismatch")
    ELSE RetBool(d, d[p].b)

asStr(d, p) ==
    IF isNull(d[p]) \/ ~isString(d[p]) THEN Throw(d, "TypeMismatch")
    ELSE RetStr(d, d[p].s)

hasKey(d, p, key) ==
    LET m == isMember(d, p, key)
    IN  IF m.ok THEN RetBool(d, m.b) ELSE LibraryFailure(d)

\* Variant: hasNonNullKey without the hasKey test before the subscript.
hasNonNullKey_Unguarded(d, p, key) ==
    LET value == Subscript(d, p, NameKey(key), "objectValue")
    IN  IF ~value.ok THEN LibraryFailure(value.doc)
        ELSE RetBool(value.doc, ~isNull(value.doc[value.ref]))

hasNonNullKey(d, p, key) ==
    LET has == hasKey(d, p, key)
    IN  IF has.kind # "ok" THEN has
        ELSE IF ~has.b THEN RetBool(d, FALSE)
        ELSE LET value == Subscript(d, p, NameKey(key), "objectValue")
             IN  IF ~value.ok THEN LibraryFailure(value.doc)
                 ELSE RetBool(value.doc, ~isNull(value.doc[value.ref]))

\* Variant: valueForKey that treats only an absent key as missing.
valueForKey_NullAllowed(d, p, key) ==
    LET value == Subscript(d, p, NameKey(key), "objectValue")
    IN  IF ~value.ok THEN LibraryFailure(value.doc)
        ELSE IF key \notin Members(d, p) THEN Throw(value.doc, "MissingKey")
        ELSE RetView(value.doc, value.ref)

valueForKey(d, p, key) ==
    LET value == Subscript(d, p, NameKey(key), "objectValue")
    IN  IF ~value.ok THEN LibraryFailure(value.doc)
        ELSE IF isNull(value.doc[value.ref]) THEN Throw(value.doc, "MissingKey")
        ELSE RetView(value.doc, value.ref)

arrayLen(d, p) ==
    IF ~isArray(d[p]) THEN Throw(d, "NotArray")
    ELSE RetNum(d, 0, size(d, p), 0)

valueAtIndex(d, p, index) ==
    IF ~isArray(d[p]) THEN Throw(d, "NotArray")
    ELSE LET value == Subscript(d, p, IndexKey(index), "arrayValue")
         IN  IF ~value.ok THEN LibraryFailure(value.doc)
             ELSE RetView(value.doc, value.ref)

-----------------------------------------------------------------------------
(* PlannerDomRoot: the documents Json::Reader::parse accepts               *)

\* {"a": 1, "b": [true, "x", null]}
DocScenario ==
    (<<>> :> ObjectNode)
    @@ (<<NameKey("a")>> :> IntNode(0, 1))
    @@ (<<NameKey("b")>> :> ArrayNode)
    @@ (<<NameKey("b"), IndexKey(0)>> :> BoolNode(TRUE))
    @@ (<<NameKey("b"), IndexKey(1)>> :> StringNode("x"))
    @@ (<<NameKey("b"), IndexKey(2)>> :> NullNode)

\* {"a": null}
DocNullMember == (<<>> :> ObjectNode) @@ (<<NameKey("a")>> :> NullNode)

\* {"a": 2147483648, "b": {"a": 1.5, "b": -2147483649}}
DocWide ==
    (<<>> :> ObjectNode)
    @@ (<<NameKey("a")>> :> IntNode(HalfLimb, 0))
    @@ (<<NameKey("b")>> :> ObjectNode)
    @@ (<<NameKey("b"), NameKey("a")>> :> RealNode(0, 1, 1))
    @@ (<<NameKey("b"), NameKey("b")>> :> IntNode(0 - HalfLimb - 1, Limb - 1))

\* [2147483647, -2147483648, false, {}]
DocArray ==
    (<<>> :> ArrayNode)
    @@ (<<IndexKey(0)>> :> IntNode(HalfLimb - 1, Limb - 1))
    @@ (<<IndexKey(1)>> :> IntNode(0 - HalfLimb, 0))
    @@ (<<IndexKey(2)>> :> BoolNode(FALSE))
    @@ (<<IndexKey(3)>> :> ObjectNode)

\* null
DocNull == (<<>> :> NullNode)

Documents == {DocScenario, DocNullMember, DocWide, DocArray, DocNull}

\* The documents of the two-thread specification.
SharedDocuments == {DocScenario, DocNullMember}

-----------------------------------------------------------------------------
(* The callers: each thread holds one view (a path into the document) and  *)
(* calls one method at a time on it.  solo[t] is the document and view     *)
(* thread t would have had it run alone; it is followed only in the        *)
(* two-thread specification.                                               *)

Report(t, op, key, index, at, r) ==
    [t |-> t, op |-> op, key |-> key, index |-> index, at |-> at,
     kind |-> r.kind, hi |-> r.hi, lo |-> r.lo, half |-> r.half,
     s |-> r.s, b |-> r.b, ref |-> r.ref]

Moved(p, r) == IF r.ref = <<>> THEN p ELSE r.ref[1]

\* A caller makes its next call: the one thread of the single-caller
\* specification, or a thread that has calls left in the two-thread one.
Callable(t, mt) == IF mt THEN nops[t] < MaxOps ELSE t = 1

\* Thread t calls a method whose outcome on the shared document is r and whose
\* outcome on the thread's own replica is a.
Call(t, mt, op, key, index, r, a) ==
    /\ doc' = r.doc
    /\ view' = [view EXCEPT ![t] = Moved(view[t], r)]
    /\ last' = Report(t, op, key, index, view[t], r)
    /\ doc0' = doc0
    /\ IF mt
       THEN /\ nops' = [nops EXCEPT ![t] = nops[t] + 1]
            /\ solo' = [solo EXCEPT ![t] = [doc |-> a.doc,
                                             view |-> Moved(solo[t].view, a)]]
            /\ alone' = Report(t, op, key, index, solo[t].view, a)
       ELSE UNCHANGED <<nops, solo, alone>>

Init ==
    /\ doc \in Documents
    /\ doc0 = doc
    /\ view = [t \in Threads |-> <<>>]
    /\ solo = [t \in Threads |-> [doc |-> doc, view |-> <<>>]]
    /\ last = Report(0, "parse", "", 0 - 1, <<>>, RetBool(doc, TRUE))
    /\ alone = last
    /\ nops = [t \in Threads |-> 0]

InitShared == Init /\ doc \in SharedDocuments

AsInt(t, mt) ==
    /\ Callable(t, mt)
    /\ Call(t, mt, "asInt", "", 0 - 1,
         asInt(doc, view[t]), asInt(solo[t].doc, solo[t].view))

AsInt64(t, mt) ==
    /\ Callable(t, mt)
    /\ Call(t, mt, "asInt64", "", 0 - 1,
         asInt64(doc, view[t]), asInt64(solo[t].doc, solo[t].view))

AsDouble(t, mt) ==
    /\ Callable(t, mt)
    /\ Call(t, mt, "asDouble", "", 0 - 1,
         asDouble(doc, view[t]), asDouble(solo[t].doc, solo[t].view))

AsBool(t, mt) ==
    /\ Callable(t, mt)
    /\ Call(t, mt, "asBool", "", 0 - 1,
         asBool(doc, view[t]), asBool(solo[t].doc, solo[t].view))

AsStr(t, mt) ==
    /\ Callable(t, mt)
    /\ Call(t, mt, "asStr", "", 0 - 1,
         asStr(doc, view[t]), asStr(solo[t].doc, solo[t].view))

HasKey(t, mt) ==
    \E key \in Keys :
        /\ Callable(t, mt)
        /\ Call(t, mt, "hasKey", key, 0 - 1,
             hasKey(doc, view[t], key), hasKey(solo[t].doc, solo[t].view, key))

HasNonNullKey(t, mt) ==
    \E key \in Keys :
        /\ Callable(t, mt)
        /\ Call(t, mt, "hasNonNullKey", key, 0 - 1,
             hasNonNullKey(doc, view[t], key),
             hasNonNullKey(solo[t].doc, solo[t].view, key))

ValueForKey(t, mt) ==
    \E key \in Keys :
        /\ Callable(t, mt)
        /\ Call(t, mt, "valueForKey", key, 0 - 1,
             valueForKey(doc, view[t], key),
             valueForKey(solo[t].doc, solo[t].view, key))

ArrayLen(t, mt) ==
    /\ Callable(t, mt)
    /\ Call(t, mt, "arrayLen", "", 0 - 1,
         arrayLen(doc, view[t]), arrayLen(solo[t].doc, solo[t].view))

ValueAtIndex(t, mt) ==
    \E index \in Indexes :
        /\ Callable(t, mt)
        /\ Call(t, mt, "valueAtIndex", "", index,
             valueAtIndex(doc, view[t], index),
             valueAtIndex(solo[t].doc, solo[t].view, index))

\* PlannerDomRoot::rootObject: a view of m_document.
RootObject(t, mt) ==
    /\ Callable(t, mt)
    /\ Call(t, mt, "rootObject", "", 0 - 1, RetView(doc, <<>>), RetView(solo[t].doc, <<>>))

\* PlannerDomRoot::isNull.
RootIsNull(t, mt) ==
    /\ Callable(t, mt)
    /\ Call(t, mt, "isNull", "", 0 - 1,
         RetBool(doc, isNull(doc[<<>>])), RetBool(solo[t].doc, isNull(solo[t].doc[<<>>])))

Method(t, mt) ==
    \/ AsInt(t, mt)
    \/ AsInt64(t, mt)
    \/ AsDouble(t, mt)
    \/ AsBool(t, mt)
    \/ AsStr(t, mt)
    \/ HasKey(t, mt)
    \/ HasNonNullKey(t, mt)
    \/ ValueForKey(t, mt)
    \/ ArrayLen(t, mt)
    \/ ValueAtIndex(t, mt)
    \/ RootObject(t, mt)
    \/ RootIsNull(t, mt)

\* One caller.
Next == Method(1, FALSE)

Spec == Init /\ [][Next]_vars

\* Two callers sharing one PlannerDomRoot, their calls interleaved.
NextShared == \E t \in Threads : Method(t, TRUE)

SpecShared == InitShared /\ [][NextShared]_vars

-----------------------------------------------------------------------------
(* Properties                                                              *)

\* The tag of a node: an integer is Int32 when its value fits 32 bits.
Tag(n) ==
    CASE n.type = "nullValue" -> "Null"
      [] n.type = "booleanValue" -> "Bool"
      [] n.type = "intValue" ->
            IF n.hi >= 0 - HalfLimb /\ n.hi < HalfLimb THEN "Int32" ELSE "Int64"
      [] n.type = "realValue" -> "Double"
      [] n.type = "stringValue" -> "String"
      [] n.type = "arrayValue" -> "Array"
      [] n.type = "objectValue" -> "Object"

\* What a call handed back to its caller.
Returned(rep) ==
    [kind |-> rep.kind, hi |-> rep.hi, lo |-> rep.lo, half |-> rep.half,
     s |-> rep.s, b |-> rep.b, ref |-> rep.ref]

\* The node the last call was made on.
Target == doc[last.at]

\* C1: after a successful parse no sequence of view operations changes the
\* tree: its content always equals its content right after the parse.
C1_TreeNeverMutated == doc = doc0

\* C2: on an Object node valueForKey(k) returns a view of the child stored
\* under k exactly when hasNonNullKey(k) is true, and otherwise fails with
\* MissingKey and returns no view.
C2_ValueForKeyIffHasNonNullKey ==
    [][(last'.op = "valueForKey" /\ doc[last'.at].type = "objectValue") =>
          LET has == hasNonNullKey(doc, last'.at, last'.key)
              child == Append(last'.at, NameKey(last'.key))
          IN  /\ has.kind = "ok"
              /\ has.b => /\ last'.kind = "ok"
                          /\ last'.ref = <<child>>
                          /\ doc'[child] = doc[child]
              /\ ~has.b => /\ last'.kind = "MissingKey"
                           /\ last'.ref = <<>>]_vars

C2_Witness ==
    /\ last.op = "valueForKey"
    /\ Target.type = "objectValue"
    /\ last.kind = "MissingKey"
    /\ Append(last.at, NameKey(last.key)) \in DOMAIN doc0
    /\ isNull(doc0[Append(last.at, NameKey(last.key))])

\* C3: on a node parsed as an Object, hasKey(k) is true exactly when k is a
\* key of the object as parsed, and hasNonNullKey(k) exactly when k is such a
\* key and its value as parsed is not null.
C3_KeysAsParsed ==
    (/\ last.op \in {"hasKey", "hasNonNullKey"}
     /\ last.at \in DOMAIN doc0
     /\ doc0[last.at].type = "objectValue") =>
        LET parsed == last.key \in Members(doc0, last.at)
            child == Append(last.at, NameKey(last.key))
        IN  /\ last.kind = "ok"
            /\ last.op = "hasKey" => (last.b <=> parsed)
            /\ last.op = "hasNonNullKey" =>
                   (last.b <=> (parsed /\ ~isNull(doc0[child])))

\* C4: valueAtIndex(i) on an Array returns a view of the i-th element when
\* 0 <= i < arrayLen, fails with IndexOutOfRange and returns no view for any
\* other i, and fails with NotArray on a node that is not an Array.
C4_ValueAtIndexChecked ==
    [][last'.op = "valueAtIndex" =>
          IF ~isArray(doc[last'.at])
          THEN last'.kind = "NotArray" /\ last'.ref = <<>>
          ELSE IF last'.index >= 0 /\ last'.index < size(doc, last'.at)
          THEN /\ last'.kind = "ok"
               /\ last'.ref = <<Append(last'.at, IndexKey(last'.index))>>
          ELSE last'.kind = "IndexOutOfRange" /\ last'.ref = <<>>]_vars

\* C5: hasKey and hasNonNullKey never fail, whatever the tag of the node,
\* and return false when the node is not an Object or the key is absent.
C5_KeyTestsNeverFail ==
    last.op \in {"hasKey", "hasNonNullKey"} =>
        /\ last.kind = "ok"
        /\ (Tag(Target) # "Object" \/ last.key \notin Members(doc, last.at))
              => ~last.b

\* C6: asInt returns the value of an Int32 node and fails with TypeMismatch
\* on an Int64 node; asInt64 returns the value of an Int32 or Int64 node and
\* fails with TypeMismatch on every other tag.
C6_IntegerAccessors ==
    /\ (last.op = "asInt" /\ Tag(Target) = "Int32") =>
          /\ last.kind = "ok"
          /\ last.hi = Target.hi /\ last.lo = Target.lo /\ last.half = 0
    /\ (last.op = "asInt" /\ Tag(Target) = "Int64") => last.kind = "TypeMismatch"
    /\ (last.op = "asInt64" /\ Tag(Target) \in {"Int32", "Int64"}) =>
          /\ last.kind = "ok"
          /\ last.hi = Target.hi /\ last.lo = Target.lo /\ last.half = 0
    /\ (last.op = "asInt64" /\ Tag(Target) \notin {"Int32", "Int64"}) =>
          last.kind = "TypeMismatch"

C6_Witness ==
    /\ last.op = "asInt64"
    /\ Tag(Target) = "Int64"
    /\ last.kind = "ok"
    /\ last.hi = HalfLimb

\* C7: asDouble succeeds on every Int32, Int64 and Double node and fails
\* with TypeMismatch on every String, Bool, Array, Object and Null node.
C7_AsDoubleByTag ==
    last.op = "asDouble" =>
        IF Tag(Target) \in {"Int32", "Int64", "Double"}
        THEN last.kind = "ok"
        ELSE last.kind = "TypeMismatch"

C7_Witness ==
    /\ last.op = "asDouble"
    /\ Tag(Target) = "Int64"
    /\ last.kind = "ok"
    /\ last.hi < 0 - HalfLimb

\* C8: with two threads interleaving their calls on views of one tree, every
\* call returns what it would have returned had its thread run alone.
C8_SameOutcomeAsAlone == Returned(last) = Returned(alone)

\* C9: every typed accessor fails with TypeMismatch on a Null node; asBool
\* succeeds only on a Bool node and asStr only on a String node, returning
\* the stored value, and each fails with TypeMismatch on every other tag.
C9_NoDefaultValue ==
    /\ (last.op \in {"asInt", "asInt64", "asDouble", "asBool", "asStr"}
        /\ Tag(Target) = "Null") => last.kind = "TypeMismatch"
    /\ last.op = "asBool" =>
          IF Tag(Target) = "Bool"
          THEN last.kind = "ok" /\ last.b = Target.b
          ELSE last.kind = "TypeMismatch"
    /\ last.op = "asStr" =>
          IF Tag(Target) = "String"
          THEN last.kind = "ok" /\ last.s = Target.s
          ELSE last.kind = "TypeMismatch"

C9_Witness ==
    /\ last.op = "asBool"
    /\ Tag(Target) = "Null"
    /\ last.kind = "TypeMismatch"

\* C10: hasNonNullKey(key) on an object (or a null) leaves the document
\* unchanged, for a key present or absent: it adds no member and a later
\* hasKey(key) on the node answers as it did before.
C10_HasNonNullKeyReadsOnly ==
    [][(last'.op = "hasNonNullKey"
        /\ doc[last'.at].type \in {"objectValue", "nullValue"}) =>
          /\ doc' = doc
          /\ Members(doc', last'.at) = Members(doc, last'.at)
          /\ Returned(hasKey(doc', last'.at, last'.key))
               = Returned(hasKey(doc, last'.at, last'.key))]_vars

C10_Witness ==
    /\ last.op = "hasNonNullKey"
    /\ Target.type = "objectValue"
    /\ last.key \notin Members(doc, last.at)
    /\ last.kind = "ok"
    /\ ~last.b

====
